---- MODULE Spec2Model ----
(***************************************************************************)
(* Model of scripts/build_from_readme.py: the master-PDF builder.          *)
(*                                                                         *)
(* Lengths are integers in units of 1/40 pt (so 22.5 pt = 900, 16.25 pt =  *)
(* 650, 28.8 pt = 1152).  Every length the layout compares is a multiple   *)
(* of 1/40 pt except the A4 page size, which is rounded down; because all  *)
(* other terms are integers the comparisons `y - needed < MARGIN_PT` have  *)
(* the same outcome as in the floating point code.                         *)
(*                                                                         *)
(* A string is modelled by the number of its non-blank characters and of   *)
(* its blanks: [chars |-> n, spaces |-> m].  A text is the sequence of the *)
(* lengths of its words (what str.split() returns).                        *)
(***************************************************************************)
EXTENDS Integers, Sequences, FiniteSets, TLC

VARIABLES
    pc,             \* position in main() / build_master() / make_index_pages()
    md,             \* README text read by main() (sequence of tokens)
    cover,          \* parse_readme(): cover
    items,          \* parse_readme(): items
    idx,            \* build_master: loop index of the fetch loop
    cache,          \* build_master: cache  (list of (it, dest))
    counts,         \* build_master: counts
    fetched,        \* what each fetch did: [ok, count]
    stderr,         \* diagnostics printed to sys.stderr
    body_map,       \* build_master: body_map
    y,              \* make_index_pages: y
    current_page,   \* make_index_pages: current_page
    shown,          \* canvas: number of showPage() calls so far
    link_rects,     \* make_index_pages: link_rects
    drawn,          \* canvas: the entry lines drawn, [entry, line, of, page, y, number]
    ei,             \* make_index_pages: position in body_entries
    lines,          \* make_index_pages: lines of the current entry
    li,             \* make_index_pages: position in lines of the current entry
    rect_top,       \* make_index_pages: rect_top
    index_pages,    \* build_master: index_pages
    page_map,       \* build_master: page_map
    pages,          \* writer.pages: [kind, src, page, footer]
    outline,        \* writer outline: [title, page, parent]
    abs_page_index, \* build_master: abs_page_index
    si,             \* build_master: position in zip(cache, page_map)
    pj,             \* build_master: position in src.pages
    num,            \* build_master: num
    annots,         \* link annotations of the writer: [from, to, rect, by]
    lk,             \* build_master: position in link_rects
    merge_failed,   \* number of overlay merges that raised so far
    link_failed,    \* number of rows whose primary link strategy raised so far
    master,         \* pdfs/master.pdf as written, or NoFile
    readme,         \* README.md on disk: [exists, text]
    writes          \* order of the files written: "master", "readme"

vars == << pc, md, cover, items, idx, cache, counts, fetched, stderr, body_map, y,
           current_page, shown, link_rects, drawn, ei, lines, li, rect_top,
           index_pages, page_map, pages, outline, abs_page_index, si, pj, num,
           annots, lk, merge_failed, link_failed, master, readme, writes >>

----------------------------------------------------------------------------
(* Bounds of the model *)

MaxItems == 3        \* sections with a download link in the README
MaxPages == 3        \* pages of one source document
MaxMergeFails == 1   \* overlay merges that raise in one run
MaxLinkFails == 1    \* index rows whose primary link strategy raises in one run
MaxClock == 1        \* distinct values of utcnow()

----------------------------------------------------------------------------
(* Paths / constants (lines 57-76), in 1/40 pt *)

PageW == 23811               \* A4[0] = 595.2756 pt
PageH == 33675               \* A4[1] = 841.8898 pt
MARGIN_PT == 900             \* 30 * PX
TOP_FIRST_PT == 1800         \* 60 * PX
TOP_NEXT_PT == 900           \* 30 * PX
BODY_FS == 500               \* 12.5
H1_FS == 960                 \* 24
H2_FS == 720                 \* 18
LEADING == 650               \* BODY_FS * 1.3
H1_LEADING == 1152           \* H1_FS * 1.2
TITLE_MB_PT == 1200          \* 40 * PX
INDEX_TOP_EXTRA_PT == 480    \* 16 * PX
H2_PAD == 640                \* the 16 of ensure_space(y, H2_FS + 16)
H2_RULE_DROP == 640          \* draw_h2_with_rule: y -= 6; return y - 10
PARA_GAP == 160              \* y -= 4 after a paragraph
NUM_RESERVE == 1920          \* text_w = max_w - 48
RECT_PAD_BOTTOM == 80        \* rect_bottom - 2
RECT_PAD_TOP == 480          \* rect_top + 12

content_w == PageW - 2 * MARGIN_PT
max_w == content_w

----------------------------------------------------------------------------
(* Strings and measured widths *)

EmptyStr == [chars |-> 0, spaces |-> 0]

Word(n) == [chars |-> n, spaces |-> 0]

\* c.stringWidth(s, font, size): glyphs advance half an em, a blank a quarter
stringWidth(s, size) == (size * (2 * s.chars + s.spaces)) \div 4

\* (line + " " + w).strip()
JoinWord(line, w) ==
    IF line = EmptyStr THEN Word(w)
    ELSE [chars |-> line.chars + w, spaces |-> line.spaces + 1]

RECURSIVE HardBreak(_, _, _, _, _)
\* for ch in w: ... (lines 138-145); n characters of w are still to come
HardBreak(n, buf, acc, size, max_width) ==
    IF n = 0 THEN [acc |-> acc, line |-> buf]
    ELSE IF stringWidth([buf EXCEPT !.chars = @ + 1], size) <= max_width
         THEN HardBreak(n - 1, [buf EXCEPT !.chars = @ + 1], acc, size, max_width)
         ELSE HardBreak(n - 1, Word(1), Append(acc, buf), size, max_width)

RECURSIVE WrapLoop(_, _, _, _, _, _)
\* for w in words: ... (lines 129-147)
WrapLoop(words, i, line, acc, size, max_width) ==
    IF i > Len(words) THEN [acc |-> acc, line |-> line]
    ELSE LET w == words[i]
             test == JoinWord(line, w)
         IN  IF stringWidth(test, size) <= max_width
             THEN WrapLoop(words, i + 1, test, acc, size, max_width)
             ELSE LET flushed == IF line # EmptyStr THEN Append(acc, line) ELSE acc
                  IN  IF stringWidth(Word(w), size) > max_width
                      THEN LET hb == HardBreak(w, EmptyStr, flushed, size, max_width)
                           IN  WrapLoop(words, i + 1, hb.line, hb.acc, size, max_width)
                      ELSE WrapLoop(words, i + 1, Word(w), flushed, size, max_width)

wrap_by_width(text, size, max_width) ==
    IF text = << >> THEN << EmptyStr >>
    ELSE LET r == WrapLoop(text, 1, EmptyStr, << >>, size, max_width)
         IN  IF r.line # EmptyStr THEN Append(r.acc, r.line) ELSE r.acc

----------------------------------------------------------------------------
(* Inputs: what parse_readme() hands to main() *)

\* A title: `words` is title.split() as word lengths, `text` its characters
\* as far as the README rewrite distinguishes them ("-" a character that is
\* neither a letter nor a digit, "BS" a backslash, "n" the letter n).
PlainTitle(words) == [words |-> words, text |-> << "-" >>]

TitleChoices == { PlainTitle(<< 30 >>), PlainTitle(<< 50, 100 >>) }

Para(n) == [i \in 1..n |-> 50]

\* Two covers: after the first the "Index" header leaves room for exactly
\* three entry lines on the first index page; with the second the header
\* itself no longer fits and moves to a second index page.
CoverChoices ==
    { [title |-> << 20 >>, subheads |-> 1, intro |-> << Para(18), Para(18) >>,
       survival |-> TRUE],
      [title |-> << 20 >>, subheads |-> 1, intro |-> << Para(20), << >>, Para(19) >>,
       survival |-> TRUE] }

RECURSIVE SeqsUpTo(_, _)
SeqsUpTo(S, n) ==
    IF n = 0 THEN { << >> }
    ELSE LET shorter == SeqsUpTo(S, n - 1)
         IN  shorter \cup { Append(q, e) : q \in shorter, e \in S }

ItemLists ==
    { [i \in 1..Len(ts) |-> [title |-> ts[i], url |-> i]] :
        ts \in SeqsUpTo(TitleChoices, MaxItems) }

NoFile == [exists |-> FALSE, text |-> << >>]

File(text) == [exists |-> TRUE, text |-> text]

----------------------------------------------------------------------------
(* build_master, step 1: fetch sources + counts (lines 447-457) *)

\* a line on sys.stderr; item is the manifest position it is about, or -1
Warn(what, i) == [warn |-> what, item |-> i]

\* the try block succeeded: cache.append((it, dest)); counts.append(count)
FetchOk(st, it, i, count) ==
    [cache  |-> Append(st.cache, [it |-> it, dest |-> i]),
     counts |-> Append(st.counts, count),
     stderr |-> st.stderr]

\* (variant: the failed item is kept as an empty entry instead of skipped)
FetchErrorKeepsEntry(st, it, i) ==
    [cache  |-> Append(st.cache, [it |-> it, dest |-> i]),
     counts |-> Append(st.counts, 0),
     stderr |-> Append(st.stderr, Warn("skipping", i))]

\* (variant: the failure is swallowed without a message)
FetchErrorSilent(st, it, i) ==
    [cache |-> st.cache, counts |-> st.counts, stderr |-> st.stderr]

\* the try block raised: print("[warn] Skipping ...", file=sys.stderr); continue
FetchError(st, it, i) ==
    [cache  |-> st.cache,
     counts |-> st.counts,
     stderr |-> Append(st.stderr, Warn("skipping", i))]

----------------------------------------------------------------------------
(* build_master, step 2: body numbering (lines 459-464) *)

\* (variant: the end of the range taken exclusive)
BodyEntryEndExclusive(it, cursor, count) ==
    [title |-> it.title, start_body |-> cursor, end_body |-> cursor + count]

BodyEntry(it, cursor, count) ==
    [title |-> it.title, start_body |-> cursor, end_body |-> cursor + count - 1]

RECURSIVE BodyLoop(_, _, _, _, _)
\* for (it, _), count in zip(cache, counts): ...; cursor += count
BodyLoop(ca, cn, k, cursor, acc) ==
    IF k > Len(ca) \/ k > Len(cn) THEN acc
    ELSE BodyLoop(ca, cn, k + 1, cursor + cn[k],
                  Append(acc, BodyEntry(ca[k].it, cursor, cn[k])))

ComputeBodyMap(ca, cn) == BodyLoop(ca, cn, 1, 1, << >>)

----------------------------------------------------------------------------
(* build_master, step 4: absolute pages (lines 474-483) *)

\* (variant: the absolute pages taken zero-based)
AbsEntryZeroBased(ent, ip) ==
    [title |-> ent.title,
     start_body |-> ent.start_body, end_body |-> ent.end_body,
     start_abs |-> ip + ent.start_body - 1, end_abs |-> ip + ent.end_body - 1]

AbsEntry(ent, ip) ==
    [title |-> ent.title,
     start_body |-> ent.start_body, end_body |-> ent.end_body,
     start_abs |-> ip + ent.start_body, end_abs |-> ip + ent.end_body]

\* for ent, count in zip(body_map, counts): page_map.append({...})
ComputePageMap(bm, cn, ip) ==
    LET n == IF Len(bm) < Len(cn) THEN Len(bm) ELSE Len(cn)
    IN  [k \in 1..n |-> AbsEntry(bm[k], ip)]

----------------------------------------------------------------------------
(* make_index_pages (lines 337-442).  A canvas position is                 *)
(* [y, page, shown]: y, current_page and the number of showPage() calls.   *)

new_page(first) == PageH - (IF first THEN TOP_FIRST_PT ELSE TOP_NEXT_PT)

ensure_space(st, needed) ==
    IF st.y - needed < MARGIN_PT
    THEN [y |-> new_page(FALSE), page |-> st.page + 1, shown |-> st.shown + 1]
    ELSE st

Down(st, d) == [st EXCEPT !.y = @ - d]

draw_h2_with_rule(st) == Down(st, H2_RULE_DROP)

\* H1 title, wrapped and centred (lines 364-375)
LayoutTitle(st, title) ==
    LET title_lines == wrap_by_width(title, H1_FS, max_w)
        s1 == ensure_space(st, H1_LEADING * Len(title_lines) + TITLE_MB_PT)
    IN  Down(Down(s1, H1_LEADING * Len(title_lines)), TITLE_MB_PT)

RECURSIVE LayoutSubheads(_, _)
\* for sh in subheads (lines 378-381)
LayoutSubheads(st, n) ==
    IF n = 0 THEN st
    ELSE LayoutSubheads(draw_h2_with_rule(ensure_space(st, H2_FS + H2_PAD)), n - 1)

RECURSIVE LayoutLines(_, _)
\* for line in lines: y = ensure_space(y, LEADING); drawString; y -= LEADING
LayoutLines(st, n) ==
    IF n = 0 THEN st
    ELSE LET s == Down(ensure_space(st, LEADING), LEADING)
         IN  IF s = s THEN LayoutLines(s, n - 1) ELSE s   \* (s = s: TLC evaluates s here)

RECURSIVE LayoutIntro(_, _, _)
\* for para in cover["intro"] (lines 385-393)
LayoutIntro(st, intro, k) ==
    IF k > Len(intro) THEN st
    ELSE IF intro[k] = << >> THEN LayoutIntro(st, intro, k + 1)
    ELSE LET wrapped == wrap_by_width(intro[k], BODY_FS, max_w)
         IN  LayoutIntro(Down(LayoutLines(st, Len(wrapped)), PARA_GAP), intro, k + 1)

\* survival guide link (lines 396-406)
LayoutSurvival(st, surv) ==
    IF surv THEN Down(ensure_space(st, LEADING), LEADING) ELSE st

\* extra gap and "Index" header (lines 408-415)
LayoutHeader(st) ==
    LET s1 == Down(ensure_space(st, INDEX_TOP_EXTRA_PT), INDEX_TOP_EXTRA_PT)
    IN  draw_h2_with_rule(ensure_space(s1, H2_FS + H2_PAD))

\* everything make_index_pages draws before the entries (lines 362-415)
LayoutCover(cv) ==
    LET s0 == [y |-> new_page(TRUE), page |-> 0, shown |-> 0]
        s1 == LayoutTitle(s0, cv.title)
        s2 == LayoutSubheads(s1, cv.subheads)
        s3 == LayoutIntro(s2, cv.intro, 1)
        s4 == LayoutSurvival(s3, cv.survival)
    IN  LayoutHeader(s4)

\* lines = wrap_by_width(c, title, FONT_REGULAR, BODY_FS, text_w)
EntryLines(title) == wrap_by_width(title.words, BODY_FS, max_w - NUM_RESERVE)

\* (variant: only the first line of the entry is required to fit)
EntryNeedsBreakOneLine(yy, required) == yy - LEADING < MARGIN_PT

\* if y - required < MARGIN_PT (line 423)
EntryNeedsBreak(yy, required) == yy - required < MARGIN_PT

\* rect = (MARGIN_PT, rect_bottom - 2, W - MARGIN_PT, rect_top + 12), with
\* rect_bottom = y + LEADING after the last line (lines 434-435)
EntryRect(top, yy) ==
    [x0 |-> MARGIN_PT, y0 |-> (yy + LEADING) - RECT_PAD_BOTTOM,
     x1 |-> PageW - MARGIN_PT, y1 |-> top + RECT_PAD_TOP]

----------------------------------------------------------------------------
(* Assembly helpers (lines 275-325) *)

NoFooter == 0

\* merge_page_safe: merge_page, else the legacy mergePage, else pass
merge_page_safe(n, outcome) ==
    IF outcome \in {"merge_page", "mergePage"} THEN n ELSE NoFooter

MergeOutcomes == {"merge_page", "mergePage", "raise"}

\* add_bookmark(writer, title, page_index, parent)
add_bookmark(ol, title, page_index, parent) ==
    Append(ol, [title |-> title, page |-> page_index, parent |-> parent])

\* add_internal_link: AnnotationBuilder first, then the low-level fallback,
\* which reads writer.pages[to_page] (IndexError is swallowed) and returns
\* when the page has no indirect reference.
add_internal_link(an, npages, from_page, to_page, rect, primary, fallback) ==
    IF primary = "ok"
    THEN Append(an, [from |-> from_page, to |-> to_page, rect |-> rect, by |-> "builder"])
    ELSE IF fallback = "ok" /\ from_page < npages /\ to_page < npages
         THEN Append(an, [from |-> from_page, to |-> to_page, rect |-> rect, by |-> "raw"])
         ELSE an

\* (variant: the footer numbering starts at the absolute page)
FirstFooterAbsolute(meta) == meta.start_abs

\* num = meta["start_body"]   (line 502)
FirstFooter(meta) == meta.start_body

\* target_idx = index_pages + (body_start - 1)   (line 513)
LinkTarget(ip, body_start) == ip + (body_start - 1)

----------------------------------------------------------------------------
(* update_readme (lines 523-555).  A text is a sequence of tokens. *)

Tok(k) == [k |-> k, s |-> 0, e |-> 0, a |-> 0]

BEGIN_MARK == Tok("BEGIN")
END_MARK == Tok("END")
NL == Tok("NL")
HR == Tok("---")
BS == Tok("BS")

TitleToks(title) == [i \in 1..Len(title.text) |-> Tok(title.text[i])]

\* "- **{title}** — pp. {start_body}–{end_body} (open: [p.{start_body}](...#page={start_abs}))"
EntryLine(ent) ==
    << Tok("- **") >> \o TitleToks(ent.title) \o
    << [k |-> "pp", s |-> ent.start_body, e |-> ent.end_body, a |-> ent.start_abs] >>

RECURSIVE JoinNL(_)
\* "\n".join(lines)
JoinNL(ls) ==
    IF ls = << >> THEN << >>
    ELSE IF Len(ls) = 1 THEN ls[1]
    ELSE ls[1] \o << NL >> \o JoinNL(Tail(ls))

Block(pm, size, updated) ==
    JoinNL(<< << BEGIN_MARK >>, << >>,
              << Tok("## Master PDF") >>,
              << [Tok("download") EXCEPT !.a = size] >>,
              << Tok("note") >>,
              << [Tok("updated") EXCEPT !.a = updated] >>, << >>,
              << Tok("### Page map") >> >>
           \o (IF pm = << >> THEN << << Tok("none") >> >>
               ELSE [i \in 1..Len(pm) |-> EntryLine(pm[i])])
           \o << << >>, << END_MARK >> >>)

Contains(text, tok) == \E i \in 1..Len(text) : text[i] = tok

RECURSIVE Expand(_, _)
\* re.sub processes the replacement as a template: \\ becomes one backslash,
\* \n a newline; a backslash before any other character of the model's
\* alphabet is left alone.
Expand(repl, i) ==
    IF i > Len(repl) THEN << >>
    ELSE IF repl[i] = BS /\ i < Len(repl) /\ repl[i + 1] = BS
         THEN << BS >> \o Expand(repl, i + 2)
    ELSE IF repl[i] = BS /\ i < Len(repl) /\ repl[i + 1] = Tok("n")
         THEN << NL >> \o Expand(repl, i + 2)
    ELSE << repl[i] >> \o Expand(repl, i + 1)

FirstAt(text, tok, from) ==
    LET S == { j \in from..Len(text) : text[j] = tok }
    IN  IF S = { } THEN 0 ELSE CHOOSE j \in S : \A l \in S : j <= l

RECURSIVE ReSub(_, _, _)
\* re.sub(BEGIN.*?END, repl, text, flags=DOTALL), scanning from position i
ReSub(text, repl, i) ==
    LET b == FirstAt(text, BEGIN_MARK, i)
        e == IF b = 0 THEN 0 ELSE FirstAt(text, END_MARK, b + 1)
    IN  IF b = 0 \/ e = 0 THEN SubSeq(text, i, Len(text))
        ELSE SubSeq(text, i, b - 1) \o repl \o ReSub(text, repl, e + 1)

update_readme(text, pm, size, updated) ==
    LET block == Block(pm, size, updated)
    IN  IF Contains(text, BEGIN_MARK) /\ Contains(text, END_MARK)
        THEN ReSub(text, Expand(block, 1), 1)
        ELSE LET sep == IF text = << >> \/ text[Len(text)] # NL
                        THEN << NL, NL, HR, NL, NL >>
                        ELSE << NL, HR, NL, NL >>
             IN  text \o sep \o block \o << NL >>

----------------------------------------------------------------------------
(* The program: main() and build_master() as a state machine *)

ReadmeChoices ==
    { File(<< Tok("-"), NL, BEGIN_MARK, Tok("-"), END_MARK, NL >>) }

Clock == 1..MaxClock

Idle ==
    /\ idx = 0 /\ cache = << >> /\ counts = << >> /\ fetched = << >>
    /\ stderr = << >> /\ body_map = << >>
    /\ y = 0 /\ current_page = 0 /\ shown = 0 /\ link_rects = << >>
    /\ drawn = << >> /\ ei = 0 /\ lines = << >> /\ li = 0 /\ rect_top = 0
    /\ index_pages = 0 /\ page_map = << >>
    /\ pages = << >> /\ outline = << >> /\ abs_page_index = 0
    /\ si = 0 /\ pj = 0 /\ num = 0 /\ annots = << >> /\ lk = 0
    /\ merge_failed = 0 /\ link_failed = 0
    /\ master = NoFile /\ writes = << >>

Init ==
    /\ pc = "main"
    /\ \/ readme = NoFile /\ cover \in CoverChoices /\ items = << >>
       \/ readme \in ReadmeChoices /\ cover \in CoverChoices /\ items \in ItemLists
    /\ md = << >>
    /\ Idle

\* main: README.md missing -> sys.exit(1)   (lines 559-561)
MainNoReadme ==
    /\ pc = "main" /\ ~readme.exists
    /\ pc' = "exit1"
    /\ stderr' = Append(stderr, Warn("README.md missing", -1))
    /\ UNCHANGED << md, cover, items, idx, cache, counts, fetched, body_map, y,
                    current_page, shown, link_rects, drawn, ei, lines, li, rect_top,
                    index_pages, page_map, pages, outline, abs_page_index, si,
                    pj, num, annots, lk, merge_failed, link_failed, master,
                    readme, writes >>

\* main without the early return of line 567: falls through to build_master
MainNothingToDoFallsThrough ==
    /\ pc = "main" /\ readme.exists /\ items = << >>
    /\ md' = readme.text
    /\ pc' = "fetch"
    /\ stderr' = Append(stderr, Warn("nothing to do", -1))
    /\ UNCHANGED << cover, items, idx, cache, counts, fetched, body_map, y,
                    current_page, shown, link_rects, drawn, ei, lines, li, rect_top,
                    index_pages, page_map, pages, outline, abs_page_index, si,
                    pj, num, annots, lk, merge_failed, link_failed, master,
                    readme, writes >>

\* main: read and parse; no items -> return   (lines 563-567)
MainNothingToDo ==
    /\ pc = "main" /\ readme.exists /\ items = << >>
    /\ md' = readme.text
    /\ pc' = "done"
    /\ stderr' = Append(stderr, Warn("nothing to do", -1))
    /\ UNCHANGED << cover, items, idx, cache, counts, fetched, body_map, y,
                    current_page, shown, link_rects, drawn, ei, lines, li, rect_top,
                    index_pages, page_map, pages, outline, abs_page_index, si,
                    pj, num, annots, lk, merge_failed, link_failed, master,
                    readme, writes >>

\* main: read and parse; call build_master   (lines 563-569)
MainBuild ==
    /\ pc = "main" /\ readme.exists /\ items # << >>
    /\ md' = readme.text
    /\ pc' = "fetch"
    /\ UNCHANGED << cover, items, idx, cache, counts, fetched, stderr, body_map,
                    y, current_page, shown, link_rects, drawn, ei, lines, li, rect_top,
                    index_pages, page_map, pages, outline, abs_page_index, si,
                    pj, num, annots, lk, merge_failed, link_failed, master,
                    readme, writes >>

\* download_pdf + len(PdfReader(dest).pages): raises, or yields a page count
FetchOutcomes ==
    { [ok |-> FALSE, count |-> 0] } \cup { [ok |-> TRUE, count |-> n] : n \in 0..MaxPages }

\* one iteration of the fetch loop   (lines 448-457)
Fetch ==
    /\ pc = "fetch" /\ idx < Len(items)
    /\ \E outcome \in FetchOutcomes :
         LET it == items[idx + 1]
             st == [cache |-> cache, counts |-> counts, stderr |-> stderr]
             nx == IF outcome.ok THEN FetchOk(st, it, idx, outcome.count)
                   ELSE FetchError(st, it, idx)
         IN  /\ cache' = nx.cache
             /\ counts' = nx.counts
             /\ stderr' = nx.stderr
             /\ fetched' = Append(fetched, outcome)
    /\ idx' = idx + 1
    /\ UNCHANGED << pc, md, cover, items, body_map, y, current_page, shown,
                    link_rects, drawn, ei, lines, li, rect_top, index_pages, page_map,
                    pages, outline, abs_page_index, si, pj, num, annots, lk,
                    merge_failed, link_failed, master, readme, writes >>

\* body numbering   (lines 459-464)
Numbering ==
    /\ pc = "fetch" /\ idx = Len(items)
    /\ body_map' = ComputeBodyMap(cache, counts)
    /\ pc' = "index_cover"
    /\ UNCHANGED << md, cover, items, idx, cache, counts, fetched, stderr, y,
                    current_page, shown, link_rects, drawn, ei, lines, li, rect_top,
                    index_pages, page_map, pages, outline, abs_page_index, si,
                    pj, num, annots, lk, merge_failed, link_failed, master,
                    readme, writes >>

\* make_index_pages up to the "Index" header   (lines 342-415)
IndexCover ==
    /\ pc = "index_cover"
    /\ LET st == LayoutCover(cover)
       IN  /\ y' = st.y
           /\ current_page' = st.page
           /\ shown' = st.shown
    /\ ei' = 0
    /\ pc' = "entry"
    /\ UNCHANGED << md, cover, items, idx, cache, counts, fetched, stderr,
                    body_map, link_rects, drawn, lines, li, rect_top, index_pages,
                    page_map, pages, outline, abs_page_index, si, pj, num,
                    annots, lk, merge_failed, link_failed, master, readme,
                    writes >>

\* start of one index entry: wrap, page-fit check   (lines 418-428)
EntryBegin ==
    /\ pc = "entry" /\ ei < Len(body_map)
    /\ lines' = EntryLines(body_map[ei + 1].title)
    /\ LET required == LEADING * Len(lines')
       IN  IF EntryNeedsBreak(y, required)
           THEN /\ shown' = shown + 1
                /\ current_page' = current_page + 1
                /\ y' = new_page(FALSE)
           ELSE UNCHANGED << shown, current_page, y >>
    /\ rect_top' = y'
    /\ li' = 0
    /\ pc' = "line"
    /\ UNCHANGED << md, cover, items, idx, cache, counts, fetched, stderr,
                    body_map, link_rects, drawn, ei, index_pages, page_map,
                    pages, outline, abs_page_index, si, pj, num, annots, lk,
                    merge_failed, link_failed, master, readme, writes >>

\* one line of the entry   (lines 429-433)
EntryLineDraw ==
    /\ pc = "line" /\ li < Len(lines)
    /\ drawn' = Append(drawn,
                  [entry |-> ei + 1, line |-> li + 1, of |-> Len(lines),
                   page |-> shown, y |-> y,
                   number |-> IF li + 1 = Len(lines)
                              THEN body_map[ei + 1].start_body ELSE 0])
    /\ y' = y - LEADING
    /\ li' = li + 1
    /\ UNCHANGED << pc, md, cover, items, idx, cache, counts, fetched, stderr,
                    body_map, current_page, shown, link_rects, ei, lines, rect_top,
                    index_pages, page_map, pages, outline, abs_page_index, si,
                    pj, num, annots, lk, merge_failed, link_failed, master,
                    readme, writes >>

\* end of the entry: its clickable rectangle   (lines 434-436)
EntryEnd ==
    /\ pc = "line" /\ li = Len(lines)
    /\ link_rects' = Append(link_rects,
                       [from_page |-> current_page, rect |-> EntryRect(rect_top, y),
                        body_start |-> body_map[ei + 1].start_body])
    /\ ei' = ei + 1
    /\ pc' = "entry"
    /\ UNCHANGED << md, cover, items, idx, cache, counts, fetched, stderr,
                    body_map, y, current_page, shown, drawn, lines, li, rect_top,
                    index_pages, page_map, pages, outline, abs_page_index, si,
                    pj, num, annots, lk, merge_failed, link_failed, master,
                    readme, writes >>

\* c.save() emits the page in progress; index_pages = len(index_pdf.pages);
\* then the absolute page map   (lines 438-442, 472-483)
IndexSave ==
    /\ pc = "entry" /\ ei = Len(body_map)
    /\ shown' = shown + 1
    /\ index_pages' = shown'
    /\ page_map' = ComputePageMap(body_map, counts, index_pages')
    /\ pc' = "assemble"
    /\ UNCHANGED << md, cover, items, idx, cache, counts, fetched, stderr,
                    body_map, y, current_page, link_rects, drawn, ei, lines, li,
                    rect_top, pages, outline, abs_page_index, si, pj, num,
                    annots, lk, merge_failed, link_failed, master, readme,
                    writes >>

\* index pages into the writer, bookmarks "Index" and "Sections"   (lines 486-495)
AddIndexPages ==
    /\ pc = "assemble"
    /\ pages' = [k \in 1..index_pages |->
                   [kind |-> "index", src |-> -1, page |-> k, footer |-> NoFooter]]
    /\ outline' = add_bookmark(add_bookmark(outline, "Index", 0, "root"),
                               "Sections", index_pages, "root")
    /\ abs_page_index' = index_pages
    /\ si' = 0
    /\ pc' = "source"
    /\ UNCHANGED << md, cover, items, idx, cache, counts, fetched, stderr,
                    body_map, y, current_page, shown, link_rects, drawn, ei, lines, li,
                    rect_top, index_pages, page_map, pj, num, annots, lk,
                    merge_failed, link_failed, master, readme, writes >>

\* one source: its bookmark, open it, num = start_body   (lines 497-502)
SourceBegin ==
    /\ pc = "source" /\ si < Len(cache) /\ si < Len(page_map)
    /\ outline' = add_bookmark(outline, cache[si + 1].it.title, abs_page_index, "Sections")
    /\ num' = FirstFooter(page_map[si + 1])
    /\ pj' = 0
    /\ IF counts[si + 1] = 0                 \* src.pages is empty: next source
       THEN si' = si + 1 /\ pc' = "source"
       ELSE si' = si /\ pc' = "page"
    /\ UNCHANGED << md, cover, items, idx, cache, counts, fetched, stderr,
                    body_map, y, current_page, shown, link_rects, drawn, ei, lines, li,
                    rect_top, index_pages, page_map, pages, abs_page_index,
                    annots, lk, merge_failed, link_failed, master, readme,
                    writes >>

\* one page of the source: overlay, merge, add   (lines 503-509)
AddBodyPage ==
    /\ pc = "page" /\ pj < counts[si + 1]
    /\ \E outcome \in MergeOutcomes :
         /\ outcome = "raise" => merge_failed < MaxMergeFails
         /\ merge_failed' = IF outcome = "raise" THEN merge_failed + 1 ELSE merge_failed
         /\ pages' = Append(pages,
                       [kind |-> "body", src |-> cache[si + 1].dest, page |-> pj + 1,
                        footer |-> merge_page_safe(num, outcome)])
    /\ abs_page_index' = abs_page_index + 1
    /\ num' = num + 1
    /\ pj' = pj + 1
    /\ IF pj' = counts[si + 1]               \* src.pages exhausted: next source
       THEN si' = si + 1 /\ pc' = "source"
       ELSE si' = si /\ pc' = "page"
    /\ UNCHANGED << md, cover, items, idx, cache, counts, fetched, stderr,
                    body_map, y, current_page, shown, link_rects, drawn, ei, lines, li,
                    rect_top, index_pages, page_map, outline, annots, lk,
                    link_failed, master, readme, writes >>

\* all sources appended: go on to the links
AssembleEnd ==
    /\ pc = "source" /\ ~(si < Len(cache) /\ si < Len(page_map))
    /\ lk' = 0
    /\ pc' = "links"
    /\ UNCHANGED << md, cover, items, idx, cache, counts, fetched, stderr,
                    body_map, y, current_page, shown, link_rects, drawn, ei, lines, li,
                    rect_top, index_pages, page_map, pages, outline,
                    abs_page_index, si, pj, num, annots, merge_failed,
                    link_failed, master, readme, writes >>

\* one clickable index row   (lines 512-514)
WireLink ==
    /\ pc = "links" /\ lk < Len(link_rects)
    /\ \E primary \in {"ok", "raise"}, fallback \in {"ok", "raise"} :
         LET r == link_rects[lk + 1]
             raised == IF primary = "raise" THEN 1 ELSE 0
         IN  /\ primary = "ok" => fallback = "ok"
             /\ link_failed + raised <= MaxLinkFails
             /\ link_failed' = link_failed + raised
             /\ annots' = add_internal_link(annots, Len(pages), r.from_page,
                                            LinkTarget(index_pages, r.body_start),
                                            r.rect, primary, fallback)
    /\ lk' = lk + 1
    /\ UNCHANGED << pc, md, cover, items, idx, cache, counts, fetched, stderr,
                    body_map, y, current_page, shown, link_rects, drawn, ei, lines, li,
                    rect_top, index_pages, page_map, pages, outline,
                    abs_page_index, si, pj, num, merge_failed, master, readme,
                    writes >>

\* writer.write(f); return page_map   (lines 516-520)
WriteMaster ==
    /\ pc = "links" /\ lk = Len(link_rects)
    /\ master' = [exists |-> TRUE,
                  text |-> [pages |-> pages, outline |-> outline, annots |-> annots]]
    /\ writes' = Append(writes, "master")
    /\ pc' = "update_readme"
    /\ UNCHANGED << md, cover, items, idx, cache, counts, fetched, stderr,
                    body_map, y, current_page, shown, link_rects, drawn, ei, lines, li,
                    rect_top, index_pages, page_map, pages, outline,
                    abs_page_index, si, pj, num, annots, lk, merge_failed,
                    link_failed, readme >>

\* main: new_md = update_readme(md, page_map); write it if it differs
\* (lines 570-572); the size is that of master.pdf, the time is utcnow()
MainUpdateReadme ==
    /\ pc = "update_readme"
    /\ \E now \in Clock :
         LET new_md == update_readme(md, page_map, Len(master.text.pages), now)
         IN  IF new_md # md
             THEN /\ readme' = File(new_md)
                  /\ writes' = Append(writes, "readme")
             ELSE UNCHANGED << readme, writes >>
    /\ pc' = "done"
    /\ UNCHANGED << md, cover, items, idx, cache, counts, fetched, stderr,
                    body_map, y, current_page, shown, link_rects, drawn, ei, lines, li,
                    rect_top, index_pages, page_map, pages, outline,
                    abs_page_index, si, pj, num, annots, lk, merge_failed,
                    link_failed, master >>

Next ==
    \/ MainNoReadme
    \/ MainNothingToDo
    \/ MainBuild
    \/ Fetch
    \/ Numbering
    \/ IndexCover
    \/ EntryBegin
    \/ EntryLineDraw
    \/ EntryEnd
    \/ IndexSave
    \/ AddIndexPages
    \/ SourceBegin
    \/ AddBodyPage
    \/ AssembleEnd
    \/ WireLink
    \/ WriteMaster
    \/ MainUpdateReadme

Spec == Init /\ [][Next]_vars

----------------------------------------------------------------------------
(* update_readme on its own: the manifest text and the page map are drawn  *)
(* from bounded sets, the size and the timestamp are held fixed, and the   *)
(* rewrite is applied to the README once and then once more.               *)

MaxMdLen == 3        \* tokens of the manifest text

MdAlphabet == { BEGIN_MARK, END_MARK, NL, Tok("-") }

ReadmeTitles ==
    { [words |-> << 30 >>, text |-> tx] :
        tx \in { << "-" >>, << "BS", "-" >>, << "BS", "BS" >>, << "BS", "n" >> } }

ReadmePageMaps ==
    { << >> } \cup
    { << AbsEntry(BodyEntry([title |-> t, url |-> 1], 1, 2), 1) >> : t \in ReadmeTitles }

InitReadme ==
    /\ pc = "rewrite"
    /\ md \in SeqsUpTo(MdAlphabet, MaxMdLen)
    /\ readme = File(md)
    /\ page_map \in ReadmePageMaps
    /\ cover \in { [title |-> << >>, subheads |-> 0, intro |-> << >>, survival |-> FALSE] }
    /\ items = << >>
    /\ idx = 0 /\ cache = << >> /\ counts = << >> /\ fetched = << >>
    /\ stderr = << >> /\ body_map = << >>
    /\ y = 0 /\ current_page = 0 /\ shown = 0 /\ link_rects = << >>
    /\ drawn = << >> /\ ei = 0 /\ lines = << >> /\ li = 0 /\ rect_top = 0
    /\ index_pages = 1
    /\ pages = << >> /\ outline = << >> /\ abs_page_index = 0
    /\ si = 0 /\ pj = 0 /\ num = 0 /\ annots = << >> /\ lk = 0
    /\ merge_failed = 0 /\ link_failed = 0
    /\ master = NoFile /\ writes = << >>

\* write_file(README, update_readme(read_file(README), page_map))
Rewrite(next) ==
    /\ readme' = File(update_readme(readme.text, page_map, 0, 1))
    /\ writes' = Append(writes, "readme")
    /\ pc' = next
    /\ UNCHANGED << md, cover, items, idx, cache, counts, fetched, stderr,
                    body_map, y, current_page, shown, link_rects, drawn, ei,
                    lines, li, rect_top, index_pages, page_map, pages, outline,
                    abs_page_index, si, pj, num, annots, lk, merge_failed,
                    link_failed, master >>

RewriteOnce == pc = "rewrite" /\ Rewrite("rewritten")

RewriteAgain == pc = "rewritten" /\ Rewrite("rewritten twice")

NextReadme == RewriteOnce \/ RewriteAgain

SpecReadme == InitReadme /\ [][NextReadme]_vars

----------------------------------------------------------------------------
(* Properties *)

RECURSIVE SumTo(_, _)
\* q[1] + ... + q[n]
SumTo(q, n) == IF n = 0 THEN 0 ELSE SumTo(q, n - 1) + q[n]

\* build_master has computed body_map
Numbered == pc \in {"index_cover", "entry", "line", "assemble", "source", "page",
                    "links", "update_readme"} \/ (pc = "done" /\ items # << >>)

\* build_master has computed page_map
Mapped == pc \in {"assemble", "source", "page", "links", "update_readme"}
          \/ (pc = "done" /\ items # << >>)

\* the writer holds the whole document
Assembled == pc \in {"links", "update_readme"} \/ (pc = "done" /\ items # << >>)

\* C1: the body ranges follow from the page counts alone: the first starts at
\* body page 1, range i starts at 1 + c0 + ... + c(i-1), and every range starts
\* on the page after the one its predecessor ends on (no gap, no overlap).
BodyRangesContiguous ==
    Numbered =>
        /\ Len(body_map) = Len(counts)
        /\ \A i \in 1..Len(body_map) :
             /\ body_map[i].start_body = 1 + SumTo(counts, i - 1)
             /\ i = 1 => body_map[i].start_body = 1
             /\ i < Len(body_map) =>
                  body_map[i + 1].start_body = body_map[i].end_body + 1

ThreeRangesNumbered ==
    /\ pc = "index_cover" /\ counts = << 3, 2, 1 >>
    /\ body_map[3].start_body = 6 /\ body_map[3].end_body = 6

\* C2: the published page map shifts every body range by the number of index
\* pages k >= 1: startAbs = k + startBody, endAbs = k + endBody, so the length
\* of a range is preserved; page counts [2,1,3] behind a one-page index give
\* body ranges (1,2),(3,3),(4,6) and absolute ranges (2,3),(4,4),(5,7).
AbsoluteIsBodyPlusIndex ==
    Mapped =>
        /\ index_pages >= 1
        /\ Len(page_map) = Len(body_map)
        /\ \A i \in 1..Len(page_map) :
             /\ page_map[i].start_body = body_map[i].start_body
             /\ page_map[i].end_body = body_map[i].end_body
             /\ page_map[i].start_abs = index_pages + body_map[i].start_body
             /\ page_map[i].end_abs = index_pages + body_map[i].end_body
             /\ page_map[i].start_abs - page_map[i].end_abs
                  = body_map[i].start_body - body_map[i].end_body
        /\ (counts = << 2, 1, 3 >> /\ index_pages = 1) =>
             /\ [i \in 1..3 |-> << page_map[i].start_body, page_map[i].end_body >>]
                  = << << 1, 2 >>, << 3, 3 >>, << 4, 6 >> >>
             /\ [i \in 1..3 |-> << page_map[i].start_abs, page_map[i].end_abs >>]
                  = << << 2, 3 >>, << 4, 4 >>, << 5, 7 >> >>

ScenarioTwoOneThree ==
    /\ pc = "done" /\ counts = << 2, 1, 3 >> /\ index_pages = 1
    /\ Len(page_map) = 3 /\ page_map[3].end_abs = 7

\* the lines drawn for index entry e
LinesOf(e) == { i \in 1..Len(drawn) : drawn[i].entry = e }

\* C3: all lines of an index entry are drawn on one index page (no showPage
\* between its first and its last line), on the page its row is recorded on;
\* and an entry either fits above the bottom margin where it starts, or it
\* starts at the top of a fresh page as the first entry drawn on that page.
EntriesNeverSplit ==
    /\ \A i, j \in 1..Len(drawn) :
         drawn[i].entry = drawn[j].entry => drawn[i].page = drawn[j].page
    /\ \A e \in 1..Len(link_rects) :
         \A i \in LinesOf(e) : drawn[i].page = link_rects[e].from_page
    /\ \A i \in 1..Len(drawn) :
         drawn[i].line = 1 =>
           \/ drawn[i].y - LEADING * drawn[i].of >= MARGIN_PT
           \/ /\ drawn[i].y = new_page(FALSE)
              /\ \A j \in 1..(i - 1) : drawn[j].page < drawn[i].page
    /\ pc = "line" => shown = current_page

\* a three-line entry met room for exactly one line and went to the next page
ThreeLineEntryDeferred ==
    /\ pc = "done"
    /\ \E i \in 1..(Len(drawn) - 3) :
         /\ drawn[i + 1].entry = drawn[i].entry + 1
         /\ drawn[i].y - 2 * LEADING >= MARGIN_PT
         /\ drawn[i].y - 3 * LEADING < MARGIN_PT
         /\ drawn[i + 1].page = drawn[i].page + 1
         /\ drawn[i + 3].entry = drawn[i + 1].entry /\ drawn[i + 3].line = 3
         /\ drawn[i + 3].page = drawn[i + 1].page

\* positions in the manifest of the items that were fetched and read
RECURSIVE Survivors(_, _)
Survivors(f, n) ==
    IF n = 0 THEN << >>
    ELSE IF f[n].ok THEN Append(Survivors(f, n - 1), n) ELSE Survivors(f, n - 1)

\* C4: failed downloads or reads never stop build_master; the page map has
\* exactly one entry per item that did not fail, in manifest order, numbered
\* from body page 1 as if the failed items were not in the manifest.
FailedItemsLeaveNoTrace ==
    /\ (pc = "fetch" /\ idx < Len(items)) => ENABLED Fetch
    /\ Numbered => Len(fetched) = Len(items)
    /\ Mapped =>
         LET sv == Survivors(fetched, Len(fetched))
             cn == [k \in 1..Len(sv) |-> fetched[sv[k]].count]
         IN  /\ Len(page_map) = Len(sv)
             /\ Len(link_rects) = Len(sv)
             /\ \A k \in 1..Len(sv) :
                  /\ page_map[k].title = items[sv[k]].title
                  /\ page_map[k].start_body = 1 + SumTo(cn, k - 1)
                  /\ page_map[k].end_body = SumTo(cn, k)
                  /\ page_map[k].start_abs = index_pages + 1 + SumTo(cn, k - 1)
                  /\ link_rects[k].body_start = 1 + SumTo(cn, k - 1)
    /\ (pc = "done" /\ items # << >>) => master.exists

OneOfThreeFailed ==
    /\ pc = "done" /\ Len(items) = 3
    /\ fetched[1].ok /\ ~fetched[2].ok /\ fetched[3].ok
    /\ fetched[1].count = 2 /\ fetched[3].count = 1
    /\ Len(page_map) = 2
    /\ page_map[2].start_body = 3 /\ page_map[2].end_body = 3

\* the index row a link annotation was made from
RowOf(a) == { k \in 1..Len(link_rects) :
                link_rects[k].from_page = a.from /\ link_rects[k].rect = a.rect }

\* C5: every link leaves from an index page (fromPage < indexPageCount) and
\* lands on toPage = indexPageCount + (bodyPageNumber - 1), which is an
\* existing body page: the first page of the source its row names.
LinksReachFirstPages ==
    Assembled =>
        \A i \in 1..Len(annots) :
            LET a == annots[i]
            IN  /\ a.from < index_pages
                /\ RowOf(a) # { }
                /\ \A k \in RowOf(a) :
                     /\ a.to = index_pages + (link_rects[k].body_start - 1)
                     /\ a.to < Len(pages)
                     /\ pages[a.to + 1].kind = "body"
                     /\ pages[a.to + 1].src = cache[k].dest
                     /\ pages[a.to + 1].page = 1

\* C6: the outline has the root nodes Index -> page 0 and Sections -> the
\* first body page, which exists, and under Sections one child per included
\* source, in manifest order, targeting that source's startAbs - 1.
OutlineTargetsExist ==
    Assembled =>
        /\ Len(outline) = 2 + Len(page_map)
        /\ outline[1] = [title |-> "Index", page |-> 0, parent |-> "root"]
        /\ outline[2] = [title |-> "Sections", page |-> index_pages, parent |-> "root"]
        /\ outline[2].page < Len(pages)
        /\ pages[outline[2].page + 1].kind = "body"
        /\ \A k \in 1..Len(page_map) :
             outline[2 + k] = [title |-> page_map[k].title,
                               page |-> page_map[k].start_abs - 1,
                               parent |-> "Sections"]

\* the source whose body range holds body page b
SourceOfBodyPage(b) ==
    { k \in 1..Len(page_map) : page_map[k].start_body <= b /\ b <= page_map[k].end_body }

\* C7: the document is the index pages followed by the pages of every
\* included source in manifest order; the body page at zero-based physical
\* index p carries footer p - indexPageCount + 1, inside its source's body
\* range, or no footer when its overlay merge failed (it keeps its place);
\* index pages carry no footer.
FootersRunInBodyOrder ==
    (pc \in {"source", "page"} \/ Assembled) =>
        /\ Assembled => Len(pages) = index_pages + SumTo(counts, Len(counts))
        /\ Len(pages) = abs_page_index
        /\ \A p \in 0..(Len(pages) - 1) :
             IF p < index_pages
             THEN pages[p + 1] = [kind |-> "index", src |-> -1, page |-> p + 1,
                                  footer |-> NoFooter]
             ELSE LET b == p - index_pages + 1
                  IN  /\ pages[p + 1].kind = "body"
                      /\ pages[p + 1].footer \in {b, NoFooter}
                      /\ Cardinality(SourceOfBodyPage(b)) = 1
                      /\ \A k \in SourceOfBodyPage(b) :
                           /\ pages[p + 1].src = cache[k].dest
                           /\ pages[p + 1].page = b - page_map[k].start_body + 1
        /\ Cardinality({ p \in 1..Len(pages) :
                           pages[p].kind = "body" /\ pages[p].footer = NoFooter })
             = merge_failed

UnnumberedPageKeepsPlace ==
    /\ pc = "done" /\ index_pages = 2 /\ counts = << 1, 2 >> /\ merge_failed = 1
    /\ Len(pages) = 5
    /\ pages[3].footer = 1
    /\ pages[4].footer = NoFooter /\ pages[4].src = cache[2].dest /\ pages[4].page = 1
    /\ pages[5].footer = 3 /\ pages[5].src = cache[2].dest /\ pages[5].page = 2

\* C8: rewriting the summary block is stable under re-application: with the
\* size and the timestamp held fixed, the second rewrite of any manifest text
\* with any page map gives the text the first rewrite gave.
RewriteIsStable ==
    pc = "rewritten twice" => readme.text = update_readme(md, page_map, 0, 1)

RECURSIVE SkipWarnings(_, _)
\* the warnings of the fetch loop for the outcomes f[1..n]
SkipWarnings(f, n) ==
    IF n = 0 THEN << >>
    ELSE IF f[n].ok THEN SkipWarnings(f, n - 1)
         ELSE Append(SkipWarnings(f, n - 1), Warn("skipping", n - 1))

\* index rows wired so far that got no link annotation
RowsNotClickable == IF pc = "links" THEN lk - Len(annots)
                    ELSE IF Assembled THEN Len(link_rects) - Len(annots) ELSE 0

ZeroPageSourcesDropped ==
    /\ \A i \in 1..Len(counts) : counts[i] >= 1
    /\ \A i \in 1..Len(body_map) :
         body_map[i].start_body >= 1 /\ body_map[i].end_body >= body_map[i].start_body
    /\ \A i \in 1..Len(page_map) :
         page_map[i].start_body >= 1 /\ page_map[i].end_body >= page_map[i].start_body

\* C11: when parsing the manifest yields no item, main fetches nothing, writes
\* no master.pdf, leaves README.md as it read it and returns normally (never
\* through sys.exit(1)); master.pdf and README.md are written only in runs
\* with a non-empty item list, README.md only after master.pdf.
NothingToDoWritesNothing ==
    /\ (readme.exists /\ items = << >>) =>
          /\ pc \in {"main", "done"}
          /\ idx = 0 /\ fetched = << >> /\ cache = << >>
          /\ master = NoFile /\ writes = << >>
          /\ readme \in ReadmeChoices
          /\ pc = "done" =>
                /\ readme = File(md)
                /\ stderr = << Warn("nothing to do", -1) >>
    /\ writes \in { << >>, << "master" >>, << "master", "readme" >> }
    /\ writes # << >> => items # << >>
    /\ master.exists <=> writes # << >>
    /\ (readme.exists /\ pc # "main" /\ readme # File(md)) =>
          writes = << "master", "readme" >>
    /\ (readme.exists /\ pc # "main" /\ writes # << "master", "readme" >>) =>
          readme = File(md)

\* a run over a manifest without items has returned
NothingToDoReturned ==
    /\ pc = "done" /\ readme.exists /\ items = << >>
    /\ md = readme.text /\ stderr # << >>

\* a run over a non-empty item list has written master.pdf, then README.md
BothWrittenInOrder ==
    /\ pc = "done" /\ items # << >>
    /\ writes = << "master", "readme" >> /\ readme # File(md)

====
